---- MODULE Spec2Model ----
(***************************************************************************)
(* A model of data_schema/models.py: DataSchema (get_unique_fields,        *)
(* get_fields) and FieldSchema (set_value, get_value).                     *)
(*                                                                         *)
(* Python values are modelled as follows.                                  *)
(*   - a nullable integer column is None == <<>> or Some(n) == <<n>>;      *)
(*   - a Python list is a TLA+ sequence (Python index i is i + 1 here);    *)
(*   - a model instance is its primary key (Django compares instances by   *)
(*     primary key), its columns are functions of the primary key;         *)
(*   - a Python value is a record [ty, v]: the name of its type and its    *)
(*     printed form.                                                       *)
(***************************************************************************)
EXTENDS Integers, Sequences, FiniteSets, TLC

VARIABLES
    py3,               \* the interpreter running the code is Python 3 (else Python 2)
    fieldschema_set,   \* the rows self.fieldschema_set.all() yields, in that order
    field_key,         \* FieldSchema.field_key, per row
    uniqueness_order,  \* FieldSchema.uniqueness_order, per row
    field_position,    \* FieldSchema.field_position, per row
    field_type,        \* FieldSchema.field_type, per row
    field_format,      \* FieldSchema.field_format, per row
    unique_fields,     \* the instance attribute _unique_fields: None (unset) or Some(list)
    pc,                \* per thread: the line of get_unique_fields it is at
    local,             \* per thread: the list its comprehension built (line 39-41)
    miss,              \* per thread: hasattr(self, '_unique_fields') was False (line 36)
    res,               \* per thread: how its last get_unique_fields() / get_fields() ended:
                       \* None, or Some([op, status, cached, value]), cached being
                       \* whether the call found _unique_fields set (line 36)
    rec,               \* the record (obj) handed to set_value / get_value
    lastOp             \* the last set_value / get_value call and how it ended

vars == <<py3, fieldschema_set, field_key, uniqueness_order, field_position,
          field_type, field_format, unique_fields, pc, local, miss, res, rec,
          lastOp>>

fieldVars == <<field_key, uniqueness_order, field_position, field_type, field_format>>

(***************************************************************************)
(* Bounds of the model.                                                    *)
(***************************************************************************)
MaxFields == 2    \* primary keys of FieldSchema rows: 1..MaxFields
MaxPos == 2       \* lists have at most MaxPos items; field_position is -1..MaxPos

FieldIds == 1 .. MaxFields

None == << >>
Some(x) == << x >>

\* The values the configuration gives a row's uniqueness_order and field_position:
\* null and two integers, which is what an exclusion, an inversion and a tie need.
Orders == {None, Some(0), Some(1)}
SchemaPositions == {None, Some(0), Some(1)}
\* The values of field_position used against a list record.
Positions == {None} \cup {Some(n) : n \in -1 .. MaxPos}

SeqThreads == {1}
ConcThreads == {1, 2}
Threads == DOMAIN pc

Range(s) == {s[i] : i \in 1 .. Len(s)}

(***************************************************************************)
(* Python's ordering of sort keys.  Python 2 orders None before every      *)
(* integer; Python 3 raises TypeError when a comparison involves None.     *)
(***************************************************************************)
KeyLess(a, b) ==
    IF a = None THEN b # None
    ELSE b # None /\ a[1] < b[1]

RECURSIVE InsertStable(_, _, _)
InsertStable(x, s, key) ==
    IF s = << >> THEN << x >>
    ELSE IF KeyLess(key[x], key[Head(s)]) THEN << x >> \o s
    ELSE << Head(s) >> \o InsertStable(x, Tail(s), key)

RECURSIVE SortFrom(_, _, _)
SortFrom(acc, rest, key) ==
    IF rest = << >> THEN acc
    ELSE SortFrom(InsertStable(Head(rest), acc, key), Tail(rest), key)

\* list.sort(key=...) / sorted(..., key=...): a stable ascending sort.
SortNone(s, key) == s
SortedBy(s, key) == SortFrom(<< >>, s, key)

\* The sort raises TypeError: Python 3, at least one comparison, a None key.
SortRaises(s, key) ==
    py3 /\ Len(s) >= 2 /\ \E i \in 1 .. Len(s) : key[s[i]] = None

\* [field for field in self.fieldschema_set.all() if field.uniqueness_order is not None]
UniqueFilterAll(s) == s
UniqueFilter(s) == SelectSeq(s, LAMBDA f : uniqueness_order[f] # None)

AllIdle == \A t \in Threads : pc[t] = "idle"

\* line 36: if not hasattr(self, '_unique_fields')
HasAttrNever(u) == FALSE
HasAttr(u) == u # None

(***************************************************************************)
(* DataSchema.get_unique_fields as one step: a call no other thread        *)
(* interleaves with (the documented, single-threaded use).                 *)
(***************************************************************************)
GetUniqueFields(t) ==
    /\ pc[t] = "idle"
    /\ unique_fields' =
           IF HasAttr(unique_fields) THEN unique_fields
           ELSE Some(SortedBy(UniqueFilter(fieldschema_set), uniqueness_order))
    /\ res' = [res EXCEPT ![t] =
                  Some([op |-> "gu", status |-> "ok", cached |-> HasAttr(unique_fields),
                        value |-> unique_fields'[1]])]
    /\ UNCHANGED <<py3, fieldschema_set, fieldVars, pc, local, miss, rec, lastOp>>

(***************************************************************************)
(* DataSchema.get_unique_fields, one action per access to the instance:    *)
(* the steps of threads that share the instance interleave.                *)
(***************************************************************************)

GU_Call(t) ==
    /\ pc[t] = "idle"
    /\ pc' = [pc EXCEPT ![t] = "gu_hasattr"]
    /\ UNCHANGED <<py3, fieldschema_set, fieldVars, unique_fields, local, miss,
                   res, rec, lastOp>>

\* line 36: the test, and the branch taken
GU_HasAttr(t) ==
    /\ pc[t] = "gu_hasattr"
    /\ miss' = [miss EXCEPT ![t] = ~HasAttr(unique_fields)]
    /\ pc' = [pc EXCEPT ![t] = IF HasAttr(unique_fields) THEN "gu_return" ELSE "gu_filter"]
    /\ UNCHANGED <<py3, fieldschema_set, fieldVars, unique_fields, local,
                   res, rec, lastOp>>

\* lines 39-41: the list comprehension over self.fieldschema_set.all()
GU_Filter(t) ==
    /\ pc[t] = "gu_filter"
    /\ local' = [local EXCEPT ![t] = UniqueFilter(fieldschema_set)]
    /\ pc' = [pc EXCEPT ![t] = "gu_setattr"]
    /\ UNCHANGED <<py3, fieldschema_set, fieldVars, unique_fields, miss,
                   res, rec, lastOp>>

\* line 39: setattr(self, '_unique_fields', [...])
GU_SetAttr(t) ==
    /\ pc[t] = "gu_setattr"
    /\ unique_fields' = Some(local[t])
    /\ local' = [local EXCEPT ![t] = << >>]
    /\ pc' = [pc EXCEPT ![t] = "gu_sort"]
    /\ UNCHANGED <<py3, fieldschema_set, fieldVars, miss, res,
                   rec, lastOp>>

\* line 42: self._unique_fields.sort(key=lambda k: k.uniqueness_order)
GU_Sort(t) ==
    /\ pc[t] = "gu_sort"
    /\ unique_fields' = Some(SortedBy(unique_fields[1], uniqueness_order))
    /\ pc' = [pc EXCEPT ![t] = "gu_return"]
    /\ UNCHANGED <<py3, fieldschema_set, fieldVars, local, miss, res, rec, lastOp>>

\* line 43: return self._unique_fields
GU_Return(t) ==
    /\ pc[t] = "gu_return"
    /\ res' = [res EXCEPT ![t] =
                  Some([op |-> "gu", status |-> "ok", cached |-> ~miss[t],
                        value |-> unique_fields[1]])]
    /\ pc' = [pc EXCEPT ![t] = "idle"]
    /\ UNCHANGED <<py3, fieldschema_set, fieldVars, unique_fields, local, miss,
                   rec, lastOp>>

(***************************************************************************)
(* DataSchema.get_fields: one read of the row set, a sort of a fresh list. *)
(***************************************************************************)
FieldsResult(s) ==
    IF SortRaises(s, field_position)
    THEN [op |-> "gf", status |-> "TypeError", cached |-> FALSE, value |-> << >>]
    ELSE [op |-> "gf", status |-> "ok", cached |-> FALSE,
          value |-> SortedBy(s, field_position)]

GetFields(t) ==
    /\ pc[t] = "idle"
    /\ res' = [res EXCEPT ![t] = Some(FieldsResult(fieldschema_set))]
    /\ UNCHANGED <<py3, fieldschema_set, fieldVars, unique_fields, pc, local, miss,
                   rec, lastOp>>

(***************************************************************************)
(* The configuration of the schema: FieldSchema rows are created, deleted  *)
(* and updated through the ORM, between calls (no thread is inside one).   *)
(* Primary keys are handed out in increasing order, and the rows of the    *)
(* schema are read in primary-key order.                                   *)
(***************************************************************************)
KeyNames == << "a", "b", "c", "d", "e" >>
KeyOf(f) == KeyNames[f]

RemoveFrom(s, f) == SelectSeq(s, LAMBDA g : g # f)

AddField(f, uo, pos) ==
    /\ AllIdle
    /\ \A g \in Range(fieldschema_set) : g < f
    /\ fieldschema_set' = Append(fieldschema_set, f)
    /\ uniqueness_order' = [uniqueness_order EXCEPT ![f] = uo]
    /\ field_position' = [field_position EXCEPT ![f] = pos]
    /\ UNCHANGED <<py3, field_key, field_type, field_format, unique_fields, pc,
                   local, miss, res, rec, lastOp>>

RemoveField(f) ==
    /\ AllIdle
    /\ f \in Range(fieldschema_set)
    /\ fieldschema_set' = RemoveFrom(fieldschema_set, f)
    /\ uniqueness_order' = [uniqueness_order EXCEPT ![f] = None]
    /\ field_position' = [field_position EXCEPT ![f] = None]
    /\ UNCHANGED <<py3, field_key, field_type, field_format, unique_fields, pc,
                   local, miss, res, rec, lastOp>>

SetUniquenessOrder(f, uo) ==
    /\ AllIdle
    /\ f \in Range(fieldschema_set)
    /\ uniqueness_order[f] # uo
    /\ uniqueness_order' = [uniqueness_order EXCEPT ![f] = uo]
    /\ UNCHANGED <<py3, fieldschema_set, field_key, field_position, field_type,
                   field_format, unique_fields, pc, local, miss, res, rec, lastOp>>

SetFieldPosition(f, pos) ==
    /\ AllIdle
    /\ f \in Range(fieldschema_set)
    /\ field_position[f] # pos
    /\ field_position' = [field_position EXCEPT ![f] = pos]
    /\ UNCHANGED <<py3, fieldschema_set, field_key, uniqueness_order, field_type,
                   field_format, unique_fields, pc, local, miss, res, rec, lastOp>>

\* A new DataSchema instance of the same row is loaded: it has no _unique_fields
\* attribute, and nothing has been returned from it yet.
NewInstance ==
    /\ AllIdle
    /\ unique_fields # None \/ \E t \in Threads : res[t] # None
    /\ unique_fields' = None
    /\ res' = [t \in Threads |-> None]
    /\ UNCHANGED <<py3, fieldschema_set, fieldVars, pc, local, miss, rec, lastOp>>

(***************************************************************************)
(* Python values and records.                                              *)
(***************************************************************************)
Val(ty, v) == [ty |-> ty, v |-> v]
NoValue == Val("none", "")
Absent == Val("absent", "")
Values == {Val("str", "7"), Val("str", "x"), Val("int", "7")}
RecKeys == {"a", "b"}
Formats == {None, Some("%d")}
NoRecord == [shape |-> "object", items |-> << >>, slots |-> [k \in RecKeys |-> Absent]]
NoOp == [op |-> "none", f |-> 0, status |-> "ok", exc |-> "", value |-> NoValue,
         converts |-> 0]

Lists == UNION {[1 .. n -> Values] : n \in 0 .. MaxPos}
Records ==
    {[shape |-> "list", items |-> l, slots |-> [k \in RecKeys |-> Absent]] : l \in Lists}
    \cup {[shape |-> sh, items |-> << >>, slots |-> m] :
             sh \in {"dict", "object"}, m \in [RecKeys -> Values \cup {Absent}]}

(***************************************************************************)
(* The schema used by one thread: calls are whole steps, and the           *)
(* configuration changes between them.                                     *)
(***************************************************************************)
InitSchema(threads) ==
    /\ py3 \in BOOLEAN
    /\ fieldschema_set = << >>
    /\ field_key = [f \in FieldIds |-> KeyOf(f)]
    /\ uniqueness_order = [f \in FieldIds |-> None]
    /\ field_position = [f \in FieldIds |-> None]
    /\ field_type = [f \in FieldIds |-> "STRING"]
    /\ field_format = [f \in FieldIds |-> None]
    /\ unique_fields = None
    /\ pc = [t \in threads |-> "idle"]
    /\ local = [t \in threads |-> << >>]
    /\ miss = [t \in threads |-> FALSE]
    /\ res = [t \in threads |-> None]
    /\ rec = NoRecord
    /\ lastOp = NoOp

Init == InitSchema(SeqThreads)

Next ==
    \/ \E t \in Threads : GetUniqueFields(t)
    \/ \E t \in Threads : GetFields(t)
    \/ \E f \in FieldIds, uo \in Orders, pos \in SchemaPositions : AddField(f, uo, pos)
    \/ \E f \in FieldIds : RemoveField(f)
    \/ \E f \in FieldIds, uo \in Orders : SetUniquenessOrder(f, uo)
    \/ \E f \in FieldIds, pos \in SchemaPositions : SetFieldPosition(f, pos)
    \/ NewInstance

Spec == Init /\ [][Next]_vars

(***************************************************************************)
(* One instance, loaded with any configuration, shared by two threads      *)
(* that call get_unique_fields.                                            *)
(***************************************************************************)
RECURSIVE Ascending(_)
Ascending(S) ==
    IF S = {} THEN << >>
    ELSE LET m == CHOOSE x \in S : \A y \in S : x <= y
         IN << m >> \o Ascending(S \ {m})

InitConc ==
    /\ py3 \in BOOLEAN
    /\ \E S \in SUBSET FieldIds :
          /\ fieldschema_set = Ascending(S)
          /\ uniqueness_order \in {uo \in [FieldIds -> Orders] :
                                      \A f \in FieldIds \ S : uo[f] = None}
    /\ field_key = [f \in FieldIds |-> KeyOf(f)]
    /\ field_position = [f \in FieldIds |-> None]
    /\ field_type = [f \in FieldIds |-> "STRING"]
    /\ field_format = [f \in FieldIds |-> None]
    /\ unique_fields = None
    /\ pc = [t \in ConcThreads |-> "idle"]
    /\ local = [t \in ConcThreads |-> << >>]
    /\ miss = [t \in ConcThreads |-> FALSE]
    /\ res = [t \in ConcThreads |-> None]
    /\ rec = NoRecord
    /\ lastOp = NoOp

NextConc ==
    \/ \E t \in Threads : GU_Call(t)
    \/ \E t \in Threads : GU_HasAttr(t)
    \/ \E t \in Threads : GU_Filter(t)
    \/ \E t \in Threads : GU_SetAttr(t)
    \/ \E t \in Threads : GU_Sort(t)
    \/ \E t \in Threads : GU_Return(t)

SpecConc == InitConc /\ [][NextConc]_vars

(***************************************************************************)
(* FieldSchemaType and FIELD_SCHEMA_PYTHON_TYPES.                          *)
(***************************************************************************)
FieldSchemaType == {"DATE", "DATETIME", "INT", "FLOAT", "STRING"}

FIELD_SCHEMA_PYTHON_TYPES ==
    [ft \in FieldSchemaType |->
        CASE ft = "DATE" -> "date"
          [] ft = "DATETIME" -> "datetime"
          [] ft = "INT" -> "int"
          [] ft = "FLOAT" -> "float"
          [] ft = "STRING" -> "str"]

\* The values a row's field_type column may hold: a CharField takes any
\* string, "BOOL" stands for one that is no FieldSchemaType.
FieldTypes == FieldSchemaType \cup {"BOOL"}

(***************************************************************************)
(* convert_value(python_type, value, format), from data_schema.convert_value.*)
(***************************************************************************)
Outcome(status, exc, value) == [status |-> status, exc |-> exc, value |-> value]

NumericStrings == {"7"}
FloatForm(v) == IF v = "7" THEN "7.0" ELSE v
IntForm(v) == IF v = "7.0" THEN "7" ELSE v
\* strptime(v, "%d"): the day of the month, in January 1900.
ParsesAs(v, fmt) == fmt = "%d" /\ v = "7"
DateForm(v) == "1900-01-0" \o v
DateTimeForm(v) == "1900-01-0" \o v \o " 00:00:00"

convert_value(python_type, value, format) ==
    IF value.ty = python_type THEN Outcome("ok", "", value)
    ELSE IF python_type \in {"date", "datetime"} THEN
        IF value.ty = "str" /\ format # None /\ ParsesAs(value.v, format[1])
        THEN Outcome("ok", "", Val(python_type,
                 IF python_type = "date" THEN DateForm(value.v)
                 ELSE DateTimeForm(value.v)))
        ELSE Outcome("ConversionError", "ValueError", NoValue)
    ELSE IF python_type \in {"int", "float"} THEN
        IF \/ value.ty = "str" /\ value.v \in NumericStrings
           \/ value.ty \in {"int", "float"}
        THEN Outcome("ok", "", Val(python_type,
                 IF python_type = "int" THEN IntForm(value.v)
                 ELSE FloatForm(value.v)))
        ELSE Outcome("ConversionError", "ValueError", NoValue)
    ELSE IF python_type = "str" THEN Outcome("ok", "", Val("str", value.v))
    ELSE Outcome("ConversionError", "TypeError", NoValue)

(***************************************************************************)
(* The slot of a field in a record.                                        *)
(***************************************************************************)
\* obj[field_position] on a list: the 1-based index of the item, 0 when the
\* subscript raises (None is no index; an integer outside -len..len-1).
ListIndexOffByOne(items, pos) ==
    IF pos = None THEN 0
    ELSE IF pos[1] >= 1 /\ pos[1] <= Len(items) THEN pos[1]
    ELSE 0
ListIndex(items, pos) ==
    IF pos = None THEN 0
    ELSE IF pos[1] >= 0 /\ pos[1] < Len(items) THEN pos[1] + 1
    ELSE IF pos[1] < 0 /\ pos[1] >= -Len(items) THEN Len(items) + pos[1] + 1
    ELSE 0

ListExc(pos) == IF pos = None THEN "TypeError" ELSE "IndexError"

\* lines 121-126: the value read from the slot, or the exception of the read.
ReadSlotDefaulting(obj, f) ==
    IF obj.shape = "list" THEN
        LET i == ListIndex(obj.items, field_position[f])
        IN Outcome("ok", "", IF i = 0 THEN NoValue ELSE obj.items[i])
    ELSE Outcome("ok", "", IF obj.slots[field_key[f]] = Absent THEN NoValue
                           ELSE obj.slots[field_key[f]])
ReadSlot(obj, f) ==
    IF obj.shape = "list" THEN
        LET i == ListIndex(obj.items, field_position[f])
        IN IF i = 0
           THEN Outcome("FieldAccessError", ListExc(field_position[f]), NoValue)
           ELSE Outcome("ok", "", obj.items[i])
    ELSE IF obj.slots[field_key[f]] = Absent
         THEN Outcome("FieldAccessError",
                      IF obj.shape = "dict" THEN "KeyError" ELSE "AttributeError",
                      NoValue)
         ELSE Outcome("ok", "", obj.slots[field_key[f]])

\* lines 111, 113, 115: the value that is stored is the value passed.
StoredValueConverted(f, value) ==
    IF field_type[f] \in FieldSchemaType
    THEN convert_value(FIELD_SCHEMA_PYTHON_TYPES[field_type[f]], value,
                       field_format[f]).value
    ELSE value
StoredValue(f, value) == value

\* lines 110-115: the record after the write, or the exception of the write.
WriteSlotAppending(obj, f, value) ==
    IF obj.shape = "list" THEN
        LET i == ListIndex(obj.items, field_position[f])
        IN IF i = 0
           THEN [status |-> "ok", exc |-> "",
                 obj |-> [obj EXCEPT !.items = Append(@, value)]]
           ELSE [status |-> "ok", exc |-> "", obj |-> [obj EXCEPT !.items[i] = value]]
    ELSE [status |-> "ok", exc |-> "",
          obj |-> [obj EXCEPT !.slots[field_key[f]] = value]]
WriteSlotClobbering(obj, f, value) ==
    IF obj.shape = "list" THEN
        LET i == ListIndex(obj.items, field_position[f])
        IN IF i = 0
           THEN [status |-> "FieldAccessError", exc |-> ListExc(field_position[f]),
                 obj |-> obj]
           ELSE [status |-> "ok", exc |-> "", obj |-> [obj EXCEPT !.items[i] = value]]
    ELSE [status |-> "ok", exc |-> "",
          obj |-> [obj EXCEPT !.slots =
                      [k \in RecKeys |-> IF k = field_key[f] THEN value ELSE Absent]]]
WriteSlot(obj, f, value) ==
    IF obj.shape = "list" THEN
        LET i == ListIndex(obj.items, field_position[f])
        IN IF i = 0
           THEN [status |-> "FieldAccessError", exc |-> ListExc(field_position[f]),
                 obj |-> obj]
           ELSE [status |-> "ok", exc |-> "", obj |-> [obj EXCEPT !.items[i] = value]]
    ELSE [status |-> "ok", exc |-> "",
          obj |-> [obj EXCEPT !.slots[field_key[f]] = value]]

(***************************************************************************)
(* FieldSchema.set_value and FieldSchema.get_value.                        *)
(***************************************************************************)
SetValue(f, value) ==
    LET w == WriteSlot(rec, f, StoredValue(f, value))
    IN /\ rec' = w.obj
       /\ lastOp' = [op |-> "set", f |-> f, status |-> w.status, exc |-> w.exc,
                     value |-> value, converts |-> 0]
       /\ UNCHANGED <<py3, fieldschema_set, fieldVars, unique_fields, pc, local,
                      miss, res>>

\* line 128: the python type is looked up before convert_value is called.
GetOutcomeDefaulting(obj, f) ==
    LET r == ReadSlot(obj, f)
    IN IF r.status # "ok" THEN [out |-> r, converts |-> 0]
       ELSE IF field_type[f] \notin DOMAIN FIELD_SCHEMA_PYTHON_TYPES
       THEN [out |-> convert_value("str", r.value, field_format[f]), converts |-> 1]
       ELSE [out |-> convert_value(FIELD_SCHEMA_PYTHON_TYPES[field_type[f]],
                                   r.value, field_format[f]),
             converts |-> 1]
GetOutcome(obj, f) ==
    LET r == ReadSlot(obj, f)
    IN IF r.status # "ok" THEN [out |-> r, converts |-> 0]
       ELSE IF field_type[f] \notin DOMAIN FIELD_SCHEMA_PYTHON_TYPES
       THEN [out |-> Outcome("ConfigurationError", "KeyError", NoValue),
             converts |-> 0]
       ELSE [out |-> convert_value(FIELD_SCHEMA_PYTHON_TYPES[field_type[f]],
                                   r.value, field_format[f]),
             converts |-> 1]

GetValue(f) ==
    LET g == GetOutcome(rec, f)
    IN /\ lastOp' = [op |-> "get", f |-> f, status |-> g.out.status,
                     exc |-> g.out.exc, value |-> g.out.value,
                     converts |-> g.converts]
       /\ UNCHANGED <<py3, fieldschema_set, fieldVars, unique_fields, pc, local,
                      miss, res, rec>>

(***************************************************************************)
(* One field, configured in any way, used on any record.                   *)
(***************************************************************************)
InitRec ==
    /\ py3 \in BOOLEAN
    /\ fieldschema_set = << 1 >>
    /\ field_key \in {k \in [FieldIds -> RecKeys \cup Range(KeyNames)] :
                         k[1] \in RecKeys /\ \A f \in FieldIds \ {1} : k[f] = KeyOf(f)}
    /\ uniqueness_order = [f \in FieldIds |-> None]
    /\ field_position \in {p \in [FieldIds -> Positions] :
                              \A f \in FieldIds \ {1} : p[f] = None}
    /\ field_type \in {ty \in [FieldIds -> FieldTypes] :
                          \A f \in FieldIds \ {1} : ty[f] = "STRING"}
    /\ field_format \in {fm \in [FieldIds -> Formats] :
                            \A f \in FieldIds \ {1} : fm[f] = None}
    /\ unique_fields = None
    /\ pc = [t \in SeqThreads |-> "idle"]
    /\ local = [t \in SeqThreads |-> << >>]
    /\ miss = [t \in SeqThreads |-> FALSE]
    /\ res = [t \in SeqThreads |-> None]
    /\ rec \in Records
    /\ lastOp = NoOp

NextRec ==
    \/ \E f \in Range(fieldschema_set), value \in Values : SetValue(f, value)
    \/ \E f \in Range(fieldschema_set) : GetValue(f)

SpecRec == InitRec /\ [][NextRec]_vars

(***************************************************************************)
(* Properties of DataSchema.                                               *)
(***************************************************************************)
IndexOf(s, x) == CHOOSE i \in 1 .. Len(s) : s[i] = x
NoDuplicates(l) == \A i, j \in 1 .. Len(l) : l[i] = l[j] => i = j
UniqueOwned == {f \in Range(fieldschema_set) : uniqueness_order[f] # None}

\* l lists exactly the owned fields with a uniqueness_order, each once.
ExactlyUnique(l) == Range(l) = UniqueOwned /\ NoDuplicates(l)

StrictlyAscendingOrder(l) ==
    \A i, j \in 1 .. Len(l) :
        i < j => /\ uniqueness_order[l[i]] # None
                 /\ uniqueness_order[l[j]] # None
                 /\ uniqueness_order[l[i]][1] < uniqueness_order[l[j]][1]

\* Ascending, fields of equal uniqueness_order in the order of fieldschema_set.
StablyAscendingOrder(l) ==
    \A i, j \in 1 .. Len(l) :
        i < j => /\ uniqueness_order[l[i]] # None
                 /\ uniqueness_order[l[j]] # None
                 /\ uniqueness_order[l[i]][1] <= uniqueness_order[l[j]][1]
                 /\ uniqueness_order[l[i]] = uniqueness_order[l[j]]
                       => IndexOf(fieldschema_set, l[i]) < IndexOf(fieldschema_set, l[j])

IsCall(r, op) == r # None /\ r[1].op = op

\* A step that is a call of get_unique_fields / get_fields by thread t.
UniqueCall(t) == IsCall(res'[t], "gu") /\ res'[t] # res[t]
FieldsCall(t) == IsCall(res'[t], "gf") /\ res'[t] # res[t]

\* C1 as stated, for the calls that compute the list (a call answered from the
\* memo is C3's subject): get_unique_fields() returns exactly the owned fields
\* whose uniqueness_order is not null, in strictly ascending order of
\* uniqueness_order, for every set of owned fields.
C1_Original ==
    [][\A t \in Threads :
          (UniqueCall(t) /\ ~res'[t][1].cached) =>
              /\ ExactlyUnique(res'[t][1].value)
              /\ StrictlyAscendingOrder(res'[t][1].value)]_vars

\* C1, amended: a call of get_unique_fields() on an instance that has not yet
\* memoized the list returns exactly the owned fields whose uniqueness_order is
\* not null, each once, in ascending order of uniqueness_order, fields of equal
\* uniqueness_order in the order fieldschema_set.all() yields them.
C1_UniqueFieldsOnFirstCall ==
    [][\A t \in Threads :
          (UniqueCall(t) /\ ~res'[t][1].cached) =>
              /\ ExactlyUnique(res'[t][1].value)
              /\ StablyAscendingOrder(res'[t][1].value)]_vars

\* A first call that returns two fields in the inverse of their fieldschema_set order.
C1_Witness ==
    \E t \in Threads :
        /\ IsCall(res[t], "gu") /\ ~res[t][1].cached
        /\ Len(res[t][1].value) = 2
        /\ res[t][1].value[1] > res[t][1].value[2]
        /\ ExactlyUnique(res[t][1].value)
        /\ StablyAscendingOrder(res[t][1].value)

PositionsAscending(l) ==
    \A i, j \in 1 .. Len(l) :
        (i < j /\ field_position[l[i]] # None /\ field_position[l[j]] # None)
            => field_position[l[i]][1] <= field_position[l[j]][1]

\* C2: every call of get_fields() returns exactly the owned fields, each once,
\* ascending by field_position; a field whose field_position is null is listed
\* too, and does not make the call fail.
C2_Original ==
    [][\A t \in Threads :
          FieldsCall(t) => /\ res'[t][1].status = "ok"
                           /\ Range(res'[t][1].value) = Range(fieldschema_set)
                           /\ NoDuplicates(res'[t][1].value)
                           /\ PositionsAscending(res'[t][1].value)]_vars

\* C3 as stated: both listings are memoized: a call of get_unique_fields() or of
\* get_fields() returns what the previous call of it on the instance returned,
\* whatever happened to the fields in between.
C3_Original ==
    [][\A t \in Threads :
          (res[t] # None /\ res'[t] # None /\ res'[t][1].op = res[t][1].op)
              => /\ res'[t][1].status = res[t][1].status
                 /\ res'[t][1].value = res[t][1].value]_vars

\* C3, amended: only the unique-field list is memoized.  Once _unique_fields is
\* set on an instance it is never computed again, every call of
\* get_unique_fields() returns it, and so returns what the previous call
\* returned, whatever happened to the fields in between; only a new instance
\* (no _unique_fields) computes it afresh.  get_fields() is computed at every
\* call, from the fields owned at that call.
C3_OnlyUniqueFieldsMemoized ==
    [][/\ (unique_fields # None /\ unique_fields' # None)
             => unique_fields' = unique_fields
       /\ \A t \in Threads :
             /\ IsCall(res'[t], "gu") => res'[t][1].value = unique_fields'[1]
             /\ (UniqueCall(t) /\ unique_fields # None) => res'[t][1].cached
             /\ (IsCall(res[t], "gu") /\ IsCall(res'[t], "gu"))
                    => res'[t][1].value = res[t][1].value
             /\ (FieldsCall(t) /\ res'[t][1].status = "ok")
                    => /\ Range(res'[t][1].value) = Range(fieldschema_set)
                       /\ NoDuplicates(res'[t][1].value)]_vars

\* A call answered from the memo with a list the fields no longer give.
C3_Witness ==
    \E t \in Threads :
        /\ IsCall(res[t], "gu") /\ res[t][1].cached
        /\ res[t][1].value = unique_fields[1]
        /\ ~ExactlyUnique(res[t][1].value)

\* C4: under every interleaving of threads calling get_unique_fields() on one
\* instance, the list is computed at most once (at most one call takes the
\* branch of line 36 that filters, stores and sorts), and no call returns a
\* list that is not sorted.
C4_Original ==
    /\ Cardinality({t \in Threads : miss[t]}) <= 1
    /\ \A t \in Threads :
          IsCall(res[t], "gu") => StablyAscendingOrder(res[t][1].value)

(***************************************************************************)
(* Properties of FieldSchema.  The slot of a field is stated here from the *)
(* record alone: Python's obj[i] of a list of n items is item i for        *)
(* 0 <= i < n and item n + i for -n <= i < 0.                              *)
(***************************************************************************)
SlotExists(obj, f) ==
    IF obj.shape = "list"
    THEN /\ field_position[f] # None
         /\ field_position[f][1] >= -Len(obj.items)
         /\ field_position[f][1] < Len(obj.items)
    ELSE obj.slots[field_key[f]] # Absent

\* The place in obj.items of the item a list's existing slot is.
SlotItem(obj, f) ==
    IF field_position[f][1] >= 0 THEN field_position[f][1] + 1
    ELSE Len(obj.items) + field_position[f][1] + 1

RawSlot(obj, f) ==
    IF obj.shape = "list" THEN obj.items[SlotItem(obj, f)]
    ELSE obj.slots[field_key[f]]

IsGet == lastOp.op = "get"
IsSet == lastOp.op = "set"
\* A step that is a call of set_value / get_value.
SetStep == lastOp'.op = "set"
GetStep == lastOp'.op = "get"

\* C5: get_value(record) ends as convert_value(FIELD_SCHEMA_PYTHON_TYPES[field_type],
\* raw, field_format) ends, raw being the value of the field's own slot:
\* record[field_position] of a list, record[field_key] of a dict, the attribute
\* field_key of another object (the lookup of an unsupported field_type raising
\* before the converter is called).
C5_GetValueConvertsOwnSlot ==
    (IsGet /\ SlotExists(rec, lastOp.f)) =>
        IF field_type[lastOp.f] \in FieldSchemaType
        THEN LET c == convert_value(FIELD_SCHEMA_PYTHON_TYPES[field_type[lastOp.f]],
                                    RawSlot(rec, lastOp.f), field_format[lastOp.f])
             IN /\ lastOp.status = c.status
                /\ lastOp.value = c.value
                /\ lastOp.converts = 1
        ELSE lastOp.status = "ConfigurationError"

\* get_value of an INT field at position 0 of ["7", "x"] is the integer 7.
C5_Witness ==
    /\ IsGet /\ lastOp.status = "ok"
    /\ rec.shape = "list"
    /\ rec.items = << Val("str", "7"), Val("str", "x") >>
    /\ field_position[lastOp.f] = Some(0)
    /\ field_type[lastOp.f] = "INT"
    /\ lastOp.value = Val("int", "7")

\* C6: after a successful set_value(record, value) the field's slot holds
\* exactly the value passed, whatever the field's type and the value's.
C6_SetValueStoresValueUnchanged ==
    (IsSet /\ lastOp.status = "ok") =>
        /\ SlotExists(rec, lastOp.f)
        /\ RawSlot(rec, lastOp.f) = lastOp.value

\* The string "x" set as the attribute of an INT field.
C6_Witness ==
    /\ IsSet /\ lastOp.status = "ok"
    /\ rec.shape = "object"
    /\ field_type[lastOp.f] = "INT"
    /\ lastOp.value = Val("str", "x")
    /\ rec.slots[field_key[lastOp.f]] = Val("str", "x")

\* C7 as stated: get_value fails with a field-access error, and converts
\* nothing, whenever the slot does not exist; when the slot exists the only
\* error it can raise is the converter's conversion error.
C7_Original ==
    IsGet =>
        IF SlotExists(rec, lastOp.f)
        THEN lastOp.status \in {"ok", "ConversionError"}
        ELSE lastOp.status = "FieldAccessError" /\ lastOp.converts = 0

\* C7, amended: get_value fails with a field-access error, and converts
\* nothing, whenever the slot does not exist; when the slot exists the only
\* errors it can raise are the converter's conversion error and, for a field
\* whose field_type is not one of the five types, the configuration error
\* (raised before the converter is called).
C7_GetValueErrors ==
    IsGet =>
        IF ~SlotExists(rec, lastOp.f)
        THEN /\ lastOp.status = "FieldAccessError"
             /\ lastOp.exc \in {"IndexError", "TypeError", "KeyError", "AttributeError"}
             /\ lastOp.converts = 0
        ELSE IF field_type[lastOp.f] \in FieldSchemaType
        THEN lastOp.status \in {"ok", "ConversionError"} /\ lastOp.converts = 1
        ELSE lastOp.status = "ConfigurationError" /\ lastOp.converts = 0

\* get_value on a dict that lacks the field's key.
C7_Witness ==
    /\ IsGet
    /\ rec.shape = "dict"
    /\ rec.slots[field_key[lastOp.f]] = Absent
    /\ lastOp.status = "FieldAccessError"
    /\ lastOp.exc = "KeyError"
    /\ lastOp.converts = 0

\* C8: set_value on a list fails with a field-access error whenever
\* field_position addresses no item of the list, and leaves the list as it
\* was; a list is never grown; set_value on a dict or an object that lacks
\* the key or attribute succeeds and creates it.
C8_SetValueAbsentSlot ==
    [][SetStep =>
          /\ (rec.shape = "list" /\ ~SlotExists(rec, lastOp'.f))
                 => lastOp'.status = "FieldAccessError" /\ rec' = rec
          /\ rec.shape = "list" => Len(rec'.items) = Len(rec.items)
          /\ (rec.shape # "list" /\ ~SlotExists(rec, lastOp'.f))
                 => /\ lastOp'.status = "ok"
                    /\ rec'.slots[field_key[lastOp'.f]] = lastOp'.value]_vars

\* set_value with a position beyond the end of a list of one item.
C8_Witness ==
    /\ IsSet /\ lastOp.status = "FieldAccessError" /\ lastOp.exc = "IndexError"
    /\ rec.shape = "list" /\ Len(rec.items) = 1
    /\ field_position[lastOp.f] = Some(1)

\* C9 as stated: every get_value call on a field whose field_type is not one
\* of the five types ends in the configuration error.
C9_Original ==
    (IsGet /\ field_type[lastOp.f] \notin FieldSchemaType)
        => lastOp.status = "ConfigurationError"

\* C9, amended: a get_value call on a field whose field_type is not one of
\* the five types never returns a value and never calls the converter: it
\* ends in the configuration error whenever the field's slot exists on the
\* record, and in the field-access error (raised first) when it does not.
C9_UnsupportedTypeRaises ==
    (IsGet /\ field_type[lastOp.f] \notin FieldSchemaType) =>
        /\ lastOp.status = IF SlotExists(rec, lastOp.f) THEN "ConfigurationError"
                           ELSE "FieldAccessError"
        /\ lastOp.value = NoValue
        /\ lastOp.converts = 0

\* get_value of a "BOOL" field on a dict that holds its key.
C9_Witness ==
    /\ IsGet
    /\ field_type[lastOp.f] = "BOOL"
    /\ rec.shape = "dict"
    /\ rec.slots[field_key[lastOp.f]] = Val("str", "7")
    /\ lastOp.status = "ConfigurationError"

\* C10: a successful set_value changes only the slot it resolves: the other
\* items of a list and its length, the other keys of a dict, the other
\* attributes of an object and the columns of the field stay as they were;
\* get_value changes neither the record nor the field.
C10_Frame ==
    [][/\ (SetStep /\ lastOp'.status = "ok") =>
             /\ rec'.shape = rec.shape
             /\ Len(rec'.items) = Len(rec.items)
             /\ \A i \in 1 .. Len(rec.items) :
                   i # SlotItem(rec, lastOp'.f) => rec'.items[i] = rec.items[i]
             /\ \A k \in RecKeys :
                   (rec.shape = "list" \/ k # field_key[lastOp'.f])
                       => rec'.slots[k] = rec.slots[k]
       /\ GetStep => rec' = rec
       /\ (SetStep \/ GetStep) => fieldVars' = fieldVars]_vars

\* set_value on a dict that holds another key, with another value.
C10_Witness ==
    /\ IsSet /\ lastOp.status = "ok"
    /\ rec.shape = "dict"
    /\ \E k \in RecKeys :
          /\ k # field_key[lastOp.f]
          /\ rec.slots[k] \notin {Absent, lastOp.value}

====
